---- MODULE Spec2Model ----
(***************************************************************************)
(* Model of src/src/producer/app.py, the clickstream event producer:       *)
(* make_event, generate_session_events and the emission loop of main with  *)
(* its out-of-order and duplicate injection and its retained window.       *)
(*                                                                         *)
(* Abstractions, all of values no property below reads:                    *)
(*   - page, referrer, device, geo and attributes of an event are          *)
(*     independent random draws of make_event and are left out of the      *)
(*     record;                                                             *)
(*   - uuid.uuid4() is a fresh value, drawn from the counter next_uuid;    *)
(*   - the wall clock is an integer count of sub-millisecond ticks         *)
(*     (TicksPerMs ticks to the millisecond, where Python has 1000         *)
(*     microseconds); timestamps are whole milliseconds, as                *)
(*     isoformat(timespec="milliseconds") truncates them;                  *)
(*   - probabilities are integers over RateDen: a rate r stands for        *)
(*     r / RateDen and random.random() draws u / RateDen, 0 <= u < RateDen.*)
(* Each record carries two history fields, gen_clock and oo_clock: the     *)
(* clock readings at which make_event built it and at which the            *)
(* out-of-order shift was applied to it (NoClock when it was not). The     *)
(* variable ticks counts the advances of the clock outside a pause.        *)
(***************************************************************************)
EXTENDS Integers, Sequences, FiniteSets, TLC

\* ------------------------------------------------------------------ bounds
MaxEvents == 2
MaxSession == 2
MaxTicks == 1
RateDen == 2
TicksPerMs == 2
SleepMs == 61000
WindowExtra == 1
WindowLead == 2

\* ------------------------------------------------------- program constants
WINDOW_MAX == 5000
WINDOW_KEEP == 2000
OO_MIN_S == 60
OO_MAX_S == 3600

EVENT_TYPES == {"page_view", "add_to_cart", "purchase"}

TicksPerSec == 1000 * TicksPerMs
ClockStart == (OO_MAX_S + 1) * TicksPerSec
NoClock == 0 - 1
None == "None"

\* ------------------------------------------------------------------- state
VARIABLES
    args,               \* the parsed command line (argparse Namespace)
    fs_ok,              \* environment: os.makedirs and open succeed on args.out
    pc,                 \* position of main
    stdout,             \* lines printed to standard output
    file,               \* lines written to the file args.out
    out_fh,             \* "none" | "open" | "closed"
    previously_emitted, \* the retained window
    emitted,            \* the emission counter
    user_id,            \* main's user_id of the current session
    session_events,     \* the list generate_session_events builds and returns
    n_left,             \* iterations left of generate_session_events' loop
    idx,                \* position of main's for loop in session_events
    now,                \* the wall clock, in ticks
    ticks,              \* how often the clock advanced outside a pause
    next_uuid           \* source of fresh uuid4 values

vars == <<args, fs_ok, pc, stdout, file, out_fh, previously_emitted, emitted,
          user_id, session_events, n_left, idx, now, ticks, next_uuid>>

\* ----------------------------------------------------------------- helpers
Range(s) == {s[i] : i \in 1..Len(s)}

Last(s) == s[Len(s)]

\* Python's s[-k:]
LastK(s, k) == IF Len(s) <= k THEN s ELSE SubSeq(s, Len(s) - k + 1, Len(s))

\* random.random(): a value of [0, 1), over RateDen
Draws == 0..(RateDen - 1)

\* random.randint(60, 3600): the two ends of the range
Shifts == {OO_MIN_S, OO_MAX_S}

StdoutPath == [dir |-> "", base |-> "-"]
IsStdout(path) == path = StdoutPath

\* os.path.dirname
Dirname(path) == path.dir

\* faulty variant of IsoMs: rounds up to the next millisecond
IsoMsRoundsUp(clock) == (clock + TicksPerMs - 1) \div TicksPerMs

\* datetime.isoformat(timespec="milliseconds"): the instant cut to whole
\* milliseconds
IsoMs(clock) == clock \div TicksPerMs

\* iso_utc_now()
iso_utc_now(clock) == IsoMs(clock)

\* faulty variant of make_event: the event_type argument is ignored
make_event_ignores_type(uid, sid, event_type, rnd_type, uuid, clock) ==
    [event_id   |-> uuid,
     event_ts   |-> iso_utc_now(clock),
     user_id    |-> uid,
     session_id |-> sid,
     event_type |-> rnd_type,
     gen_clock  |-> clock,
     oo_clock   |-> NoClock]

\* make_event: etype = event_type or random.choice(EVENT_TYPES)
make_event(uid, sid, event_type, rnd_type, uuid, clock) ==
    [event_id   |-> uuid,
     event_ts   |-> iso_utc_now(clock),
     user_id    |-> uid,
     session_id |-> sid,
     event_type |-> IF event_type # None THEN event_type ELSE rnd_type,
     gen_clock  |-> clock,
     oo_clock   |-> NoClock]

\* dataclasses.asdict: a new dict with the event's fields as keys; an event
\* and its dict are the same record here
asdict(ev) == ev

\* json.dumps(payload, ...): one line holding the record
json_dumps(payload) == [kind |-> "event", payload |-> payload]

BannerLine == [kind |-> "banner"]

\* ---------------------------------------------------------------- initial
DataPath == [dir |-> "data", base |-> "events.jsonl"]
BarePath == [dir |-> "", base |-> "events.jsonl"]

\* the arguments inside their documented ranges: runs that print to standard
\* output without a pause, and runs that write a file with a pause after
\* every record
ArgsInRange ==
    [events : 0..MaxEvents,
     max_events_per_session : 1..MaxSession,
     sleep_ms : {0},
     out : {StdoutPath},
     dup_rate : {0, 1, RateDen},
     oo_rate : {0, 1, RateDen}]
    \cup
    [events : 0..MaxEvents,
     max_events_per_session : 1..MaxSession,
     sleep_ms : {SleepMs},
     out : {DataPath},
     dup_rate : {0, 1, RateDen},
     oo_rate : {0, 1, RateDen}]

\* one argument outside its range, or a path without a directory part
ArgsOneOff(a) ==
    {[a EXCEPT !.events = -1],
     [a EXCEPT !.max_events_per_session = 0],
     [a EXCEPT !.sleep_ms = -1],
     [a EXCEPT !.out = BarePath],
     [a EXCEPT !.dup_rate = RateDen + 1],
     [a EXCEPT !.oo_rate = -1]}

ArgsSmall == ArgsInRange \cup UNION {ArgsOneOff(a) : a \in ArgsInRange}

\* the file system refuses only a path that names a file
FsOutcomes(a) == IF a.out = DataPath THEN BOOLEAN ELSE {TRUE}

InitState(a, ok) ==
    /\ args = a
    /\ fs_ok = ok
    /\ pc = "start"
    /\ stdout = <<>>
    /\ file = <<>>
    /\ out_fh = "none"
    /\ previously_emitted = <<>>
    /\ emitted = 0
    /\ user_id = 0
    /\ session_events = <<>>
    /\ n_left = 0
    /\ idx = 0
    /\ now = ClockStart
    /\ ticks = 0
    /\ next_uuid = 1

Init == \E a \in ArgsSmall : \E ok \in FsOutcomes(a) : InitState(a, ok)

\* ----------------------------------------------------------------- actions
\* main, lines 133-160: parse the arguments, print the banner
Start ==
    /\ pc = "start"
    /\ stdout' = Append(stdout, BannerLine)
    /\ pc' = "open"
    /\ UNCHANGED <<args, fs_ok, file, out_fh, previously_emitted, emitted,
                   user_id, session_events, n_left, idx, now, ticks, next_uuid>>

\* main, lines 162-172: select the output
OpenOut ==
    /\ pc = "open"
    /\ IF IsStdout(args.out)
         THEN /\ out_fh' = "none"
              /\ pc' = "loop"
         ELSE IF Dirname(args.out) = "" \/ ~fs_ok
                THEN /\ out_fh' = "none"
                     /\ pc' = "error"
                ELSE /\ out_fh' = "open"
                     /\ pc' = "loop"
    /\ file' = <<>>
    /\ emitted' = 0
    /\ UNCHANGED <<args, fs_ok, stdout, previously_emitted, user_id,
                   session_events, n_left, idx, now, ticks, next_uuid>>

\* line 173: while emitted < args.events
KeepGoing(count, total) == count < total

\* faulty variant of ReachedTotal: breaks one event late
ReachedTotalLate(count, total) == count > total

\* line 178: if emitted >= args.events: break
ReachedTotal(count, total) == count >= total

\* faulty variant of SessionLengths: one event too many
SessionLengthsOffByOne(max_events) == 1..(max_events + 1)

\* line 118: random.randint(1, max_events)
SessionLengths(max_events) == 1..max_events

\* the finally clause, lines 209-211
Close(fh) == IF fh = "open" THEN "closed" ELSE fh

\* main, line 173 false: the loop ends, the file is closed
Finish ==
    /\ pc = "loop"
    /\ ~KeepGoing(emitted, args.events)
    /\ out_fh' = Close(out_fh)
    /\ pc' = "done"
    /\ UNCHANGED <<args, fs_ok, stdout, file, previously_emitted, emitted,
                   user_id, session_events, n_left, idx, now, ticks, next_uuid>>

\* main, lines 173-175 and generate_session_events, lines 115-118
BeginSession ==
    /\ pc = "loop"
    /\ KeepGoing(emitted, args.events)
    /\ user_id' = next_uuid
    /\ next_uuid' = next_uuid + 3
    /\ IF args.max_events_per_session < 1
         THEN \* random.randint(1, max_events) raises ValueError after the
              \* first make_event: nothing is returned, the finally clause
              \* closes the file
              /\ UNCHANGED <<session_events, n_left, idx>>
              /\ out_fh' = Close(out_fh)
              /\ pc' = "error"
         ELSE \E rnd \in EVENT_TYPES, n \in SessionLengths(args.max_events_per_session) :
                /\ session_events' =
                       <<make_event(next_uuid, next_uuid + 1, "page_view", rnd,
                                    next_uuid + 2, now)>>
                /\ n_left' = n - 1
                /\ idx' = 1
                /\ out_fh' = out_fh
                /\ pc' = IF n = 1 THEN "for" ELSE "gen"
    /\ UNCHANGED <<args, fs_ok, stdout, file, previously_emitted, emitted, now,
                   ticks>>

\* generate_session_events, lines 119-126: one iteration
GenMore ==
    /\ pc = "gen"
    /\ n_left > 0
    /\ \E etype \in EVENT_TYPES, rnd \in EVENT_TYPES :
         session_events' =
             Append(session_events,
                    make_event(user_id, session_events[1].session_id, etype,
                               rnd, next_uuid, now))
    /\ next_uuid' = next_uuid + 1
    /\ n_left' = n_left - 1
    /\ pc' = IF n_left = 1 THEN "for" ELSE "gen"
    /\ UNCHANGED <<args, fs_ok, stdout, file, out_fh, previously_emitted,
                   emitted, user_id, idx, now, ticks>>

\* lines 184-186
InjectOutOfOrder(payload, clock, k) ==
    [payload EXCEPT !.event_ts = IsoMs(clock - k * TicksPerSec),
                    !.oo_clock = clock]

OoCandidates(payload, u, clock) ==
    IF u < args.oo_rate
      THEN {InjectOutOfOrder(payload, clock, k) : k \in Shifts}
      ELSE {payload}

\* faulty variant of DupCandidates: asks for two retained records
DupCandidatesNeedsTwo(payload, u) ==
    IF Len(previously_emitted) > 1 /\ u < args.dup_rate
      THEN Range(previously_emitted)
      ELSE {payload}

\* faulty variant of DupCandidates: the retained record's fields are recycled
\* under the fresh record's event_id
DupCandidatesRecycled(payload, u) ==
    IF previously_emitted # <<>> /\ u < args.dup_rate
      THEN {[r EXCEPT !.event_id = payload.event_id] :
                r \in Range(previously_emitted)}
      ELSE {payload}

\* lines 189-190
DupCandidates(payload, u) ==
    IF previously_emitted # <<>> /\ u < args.dup_rate
      THEN Range(previously_emitted)
      ELSE {payload}

\* faulty variant of EmitCandidates: the out-of-order shift is applied after
\* the duplicate is chosen
EmitCandidatesOoAfterDup(ev, u_oo, u_dup, clock) ==
    UNION {OoCandidates(p, u_oo, clock) : p \in DupCandidates(asdict(ev), u_dup)}

\* lines 181-190: the payload one iteration writes, given its two draws
EmitCandidates(ev, u_oo, u_dup, clock) ==
    UNION {DupCandidates(p, u_dup) : p \in OoCandidates(asdict(ev), u_oo, clock)}

\* the payloads one iteration can write, over every outcome of the draws
Payloads(ev, clock) ==
    UNION {EmitCandidates(ev, u_oo, u_dup, clock) : u_oo \in Draws, u_dup \in Draws}

\* faulty variant of Retain: the window is cut when it reaches WINDOW_MAX
RetainOffByOne(window, payload) ==
    LET w == Append(window, payload)
    IN  IF Len(w) >= WINDOW_MAX THEN LastK(w, WINDOW_KEEP) ELSE w

\* lines 200-202
Retain(window, payload) ==
    LET w == Append(window, payload)
    IN  IF Len(w) > WINDOW_MAX THEN LastK(w, WINDOW_KEEP) ELSE w

\* lines 206-207
Sleep(clock) ==
    IF args.sleep_ms > 0 THEN clock + args.sleep_ms * TicksPerMs ELSE clock

\* main, lines 177-207: one iteration of the for loop that emits
Emit ==
    /\ pc = "for"
    /\ idx <= Len(session_events)
    /\ ~ReachedTotal(emitted, args.events)
    /\ \E payload \in Payloads(session_events[idx], now) :
            /\ IF out_fh = "open"
                 THEN /\ file' = Append(file, json_dumps(payload))
                      /\ stdout' = stdout
                 ELSE /\ stdout' = Append(stdout, json_dumps(payload))
                      /\ file' = file
            /\ previously_emitted' = Retain(previously_emitted, payload)
    /\ emitted' = emitted + 1
    /\ now' = Sleep(now)
    /\ idx' = idx + 1
    /\ pc' = IF idx = Len(session_events) THEN "loop" ELSE "for"
    /\ UNCHANGED <<args, fs_ok, out_fh, user_id, session_events, n_left,
                   ticks, next_uuid>>

\* main, lines 178-179: the counter reached the total inside a session
Break ==
    /\ pc = "for"
    /\ idx <= Len(session_events)
    /\ ReachedTotal(emitted, args.events)
    /\ pc' = "loop"
    /\ UNCHANGED <<args, fs_ok, stdout, file, out_fh, previously_emitted,
                   emitted, user_id, session_events, n_left, idx, now,
                   ticks, next_uuid>>

\* the wall clock advances between the generation of a session and the
\* emission of each of its events, at most MaxTicks times in a run besides
\* the pauses
Tick ==
    /\ pc = "for"
    /\ ticks < MaxTicks
    /\ now' = now + 1
    /\ ticks' = ticks + 1
    /\ UNCHANGED <<args, fs_ok, pc, stdout, file, out_fh, previously_emitted,
                   emitted, user_id, session_events, n_left, idx, next_uuid>>

Step == Start \/ OpenOut \/ BeginSession \/ GenMore \/ Emit \/ Break \/ Finish

Next == Step \/ Tick

Spec == Init /\ [][Next]_vars

\* the runs with every argument inside its range
InitInRange == \E a \in ArgsInRange : \E ok \in FsOutcomes(a) : InitState(a, ok)

\* The runs with every argument inside its range and both rates strictly
\* between 0 and 1, so that every draw can come out either way (the runs of
\* the other rates take a part of these paths), and a program that never
\* stops of itself before the end of main: it is sequential, and a pause of
\* time.sleep ends.
ArgsFair ==
    {a \in ArgsInRange : /\ 0 < a.dup_rate /\ a.dup_rate < RateDen
                         /\ 0 < a.oo_rate /\ a.oo_rate < RateDen}

InitFair == \E a \in ArgsFair : \E ok \in FsOutcomes(a) : InitState(a, ok)

FairSpec == InitFair /\ [][Next]_vars /\ WF_vars(Step)

\* ------------------------------------------------- runs through truncation
\* Runs that take the retained window past WINDOW_MAX start from MidRun, the
\* state main is in after PrefixLen = WINDOW_MAX - WindowLead emissions, at
\* the head of the while loop, when every session so far drew length 1, no
\* out-of-order draw fired and the clock did not advance; duplicate
\* injection never fired (dup_rate = 0: PrefixLen distinct records) or fired
\* at every chance (dup_rate = 1.0: PrefixLen copies of the first record).
\* PrefixReached states that main is in this state after PrefixLen
\* emissions; it holds of SpecPrefix, the runs from the start of main in
\* which every session has one event.
PrefixLen == WINDOW_MAX - WindowLead

\* the event of the i-th session of the prefix
PrefixRecord(i) ==
    make_event(3 * i - 2, 3 * i - 1, "page_view", "page_view", 3 * i, ClockStart)

\* the records written in the prefix
PrefixWritten(dup_rate) ==
    [i \in 1..PrefixLen |->
        IF dup_rate = 0 THEN PrefixRecord(i) ELSE PrefixRecord(1)]

MidRun(a) ==
    /\ args = a
    /\ fs_ok = TRUE
    /\ pc = "loop"
    /\ stdout = <<BannerLine>> \o
                [i \in 1..PrefixLen |-> json_dumps(PrefixWritten(a.dup_rate)[i])]
    /\ file = <<>>
    /\ out_fh = "none"
    /\ previously_emitted = PrefixWritten(a.dup_rate)
    /\ emitted = PrefixLen
    /\ user_id = 3 * PrefixLen - 2
    /\ session_events = <<PrefixRecord(PrefixLen)>>
    /\ n_left = 0
    /\ idx = 2
    /\ now = ClockStart
    /\ ticks = 0
    /\ next_uuid = 3 * PrefixLen + 1

ArgsWindow ==
    [events : {WINDOW_MAX + 1 + WindowExtra},
     max_events_per_session : {1, 2},
     sleep_ms : {0},
     out : {StdoutPath},
     dup_rate : {0, RateDen},
     oo_rate : {0}]

\* the short runs from the start of main, and the long runs from MidRun
InitWindow == InitInRange \/ \E a \in ArgsWindow : MidRun(a)

SpecWindow == InitWindow /\ [][Next]_vars

\* the prefix itself, from the start of main
ArgsPrefix ==
    [events : {WINDOW_MAX + 1 + WindowExtra},
     max_events_per_session : {1},
     sleep_ms : {0},
     out : {StdoutPath},
     dup_rate : {0, RateDen},
     oo_rate : {0}]

InitPrefix == \E a \in ArgsPrefix : InitState(a, TRUE)

NextPrefix == Start \/ OpenOut \/ BeginSession \/ Emit \/ Finish

SpecPrefix == InitPrefix /\ [][NextPrefix]_vars

\* main is in the state MidRun after PrefixLen emissions
PrefixReached == (pc = "loop" /\ emitted = PrefixLen) => MidRun(args)

\* ------------------------------------------------------------ observations
IsEventLine(l) == l.kind = "event"

\* the selected output destination: the file of --out, or standard output
Dest == IF IsStdout(args.out) THEN stdout ELSE file

\* the records written so far, in emission order
WrittenOf(out, fl) ==
    LET ls == SelectSeq(out \o fl, IsEventLine)
    IN  [i \in 1..Len(ls) |-> ls[i].payload]

Written == WrittenOf(stdout, file)

Ids(recs) == {recs[i].event_id : i \in 1..Len(recs)}

CountsInRange == args.events >= 0 /\ args.max_events_per_session >= 1

Terminated == pc \in {"done", "error"}

\* an argument outside its documented range, or an output path that cannot
\* be written
ConfigError ==
    \/ args.events < 0
    \/ args.max_events_per_session < 1
    \/ args.sleep_ms < 0
    \/ args.dup_rate \notin 0..RateDen
    \/ args.oo_rate \notin 0..RateDen
    \/ (~IsStdout(args.out) /\ ~fs_ok)

\* ------------------------------------------------------------------ claims

\* C1: a run of main that completes has written exactly args.events lines to
\* the selected destination, each of them a serialized event record.
C1_ExactlyNEventLines ==
    (pc = "done" /\ ~ConfigError) =>
        /\ Len(Dest) = args.events
        /\ \A i \in 1..Len(Dest) : IsEventLine(Dest[i])

\* C2: with dup_rate = 1.0 every record written after the first one is
\* identical, in every field, to a record written earlier in the run.
C2_AllDuplicatesAtRateOne ==
    [][(args.dup_rate = RateDen /\ emitted >= 1 /\ emitted' = emitted + 1) =>
          Last(WrittenOf(stdout', file')) \in Range(Written)]_vars

C2_Witness ==
    /\ args.dup_rate = RateDen
    /\ emitted > WINDOW_MAX + 1
    /\ Len(previously_emitted) < emitted
    /\ Last(Written) = Written[1]

\* C3: the retained window grows by the written record while that leaves it
\* at most WINDOW_MAX long; the append that takes it past WINDOW_MAX cuts it
\* to the WINDOW_KEEP most recently written records, in emission order; it is
\* never longer than WINDOW_MAX.
C3_WindowPolicy ==
    /\ [](Len(previously_emitted) <= WINDOW_MAX)
    /\ [][emitted' = emitted + 1 =>
            LET w == WrittenOf(stdout', file')
            IN  IF Len(previously_emitted) < WINDOW_MAX
                  THEN previously_emitted' = Append(previously_emitted, Last(w))
                  ELSE /\ Len(previously_emitted') = WINDOW_KEEP
                       /\ previously_emitted' =
                              SubSeq(w, Len(w) - WINDOW_KEEP + 1, Len(w))]_vars
    /\ [][emitted' = emitted => previously_emitted' = previously_emitted]_vars

C3_Witness ==
    /\ args.dup_rate = 0
    /\ emitted = WINDOW_MAX + 1
    /\ Len(previously_emitted) = WINDOW_KEEP
    /\ previously_emitted[1].event_id # Written[1].event_id

\* C4: a duplicate is written only when a record was written before; the
\* record then written is a member of the retained window, unchanged, and the
\* iteration's freshly synthesized record (with any out-of-order shift) is
\* neither written nor retained.
C4_DuplicateIsVerbatim ==
    [][emitted' = emitted + 1 =>
          LET ev  == session_events[idx]
              all == WrittenOf(stdout', file')
              w   == Last(all)
          IN  /\ Last(previously_emitted') = w
              /\ w.event_id # ev.event_id =>
                    /\ emitted >= 1
                    /\ w \in Range(previously_emitted)
                    /\ w \in Range(Written)
                    /\ ev.event_id \notin Ids(all)
                    /\ ev.event_id \notin Ids(previously_emitted')
              /\ w.event_id = ev.event_id =>
                    /\ w.event_id \notin Ids(Written)
                    /\ [w EXCEPT !.event_ts = ev.event_ts,
                                 !.oo_clock = ev.oo_clock] = ev]_vars

C4_Witness ==
    /\ args.oo_rate = RateDen
    /\ Len(Written) = 2
    /\ Written[1] = Written[2]
    /\ Written[1].oo_clock # NoClock
    /\ Len(previously_emitted) = 2

\* C5 as stated: with oo_rate = 1.0 every written record's event_ts is earlier
\* than the time at which the record was generated by 60 to 3600 seconds.
C5_ShiftFromGenerationTime ==
    args.oo_rate = RateDen =>
        \A r \in Range(Written) :
            LET d == r.gen_clock - r.event_ts * TicksPerMs
            IN  OO_MIN_S * TicksPerSec <= d /\ d <= OO_MAX_S * TicksPerSec

\* C5, amended: with oo_rate = 1.0 every written record's event_ts is earlier
\* than the clock reading taken when the out-of-order shift was applied to it
\* by at least 60 seconds and by less than 3600 seconds and one millisecond.
C5_ShiftFromInjectionTime ==
    args.oo_rate = RateDen =>
        \A r \in Range(Written) :
            /\ r.oo_clock # NoClock
            /\ LET d == r.oo_clock - r.event_ts * TicksPerMs
               IN  /\ OO_MIN_S * TicksPerSec <= d
                   /\ d < OO_MAX_S * TicksPerSec + TicksPerMs

C5_Witness ==
    /\ args.oo_rate = RateDen
    /\ \E r \in Range(Written) :
         /\ r.oo_clock > r.gen_clock
         /\ r.oo_clock - r.event_ts * TicksPerMs > OO_MAX_S * TicksPerSec

\* C6: every configuration error (a count, a pause or a probability outside
\* its range, an output path that cannot be written) ends the process in
\* error before any record is emitted.
C6_ConfigErrorsAreFatal ==
    ConfigError => (pc # "done" /\ emitted = 0)

\* C7: the first event of the sequence generate_session_events builds is a
\* page_view.
C7_FirstIsPageView ==
    session_events # <<>> => session_events[1].event_type = "page_view"

C7_Witness ==
    /\ pc = "for"
    /\ Len(session_events) = 2
    /\ session_events[2].event_type = "purchase"

\* C8: generate_session_events returns between 1 and max_events events, all
\* with the same session_id, new to the run, and with the user_id passed in;
\* no session_id is shared by two users.
C8_SessionShape ==
    /\ pc = "for" =>
         /\ 1 <= Len(session_events)
         /\ Len(session_events) <= args.max_events_per_session
         /\ \A i \in 1..Len(session_events) :
              /\ session_events[i].session_id = session_events[1].session_id
              /\ session_events[i].user_id = user_id
         /\ \A r \in Range(Written) :
              r.session_id = session_events[1].session_id =>
                  r.event_id \in Ids(session_events)
    /\ \A r, q \in Range(Written) :
         r.session_id = q.session_id => r.user_id = q.user_id

C8_Witness ==
    /\ pc = "for"
    /\ Len(session_events) = MaxSession
    /\ Len(Written) >= 1
    /\ Written[1].user_id # user_id

\* C9: the emission counter starts at 0, counts the written records one by
\* one, never decreases and never exceeds a total >= 0; the loop terminates;
\* when the counter reaches the total inside a session, the rest of the
\* session is neither written nor retained.
C9_CounterAndTermination ==
    /\ emitted = 0
    /\ [](emitted = Len(Written))
    /\ [](args.events >= 0 => emitted <= args.events)
    /\ [][emitted' = emitted \/ emitted' = emitted + 1]_vars
    /\ [][(pc = "for" /\ emitted >= args.events /\ pc' # pc) =>
            /\ pc' = "loop"
            /\ UNCHANGED <<stdout, file, previously_emitted, emitted>>]_vars
    /\ []((pc \in {"loop", "done"} /\ emitted >= args.events /\ idx >= 1) =>
            \A i \in idx..Len(session_events) :
                /\ session_events[i].event_id \notin Ids(Written)
                /\ session_events[i].event_id \notin Ids(previously_emitted))
    /\ (CountsInRange ~> Terminated)

C9_Witness ==
    /\ pc = "done"
    /\ emitted = args.events
    /\ emitted >= 1
    /\ idx <= Len(session_events)

\* C10: two written records with the same event_id are identical in every
\* field, event_ts included.
C10_SameIdSameRecord ==
    \A r, q \in Range(Written) : r.event_id = q.event_id => r = q

C10_Witness ==
    /\ args.oo_rate = 1
    /\ Len(Written) = 2
    /\ Written[1].event_id = Written[2].event_id
    /\ Written[1].oo_clock # NoClock
    /\ Written[1].oo_clock > Written[1].gen_clock

====
